---- MODULE Spec2Model ----
(***************************************************************************)
(* Vacation request lifecycle of the HR backend: the Vacation mongoose     *)
(* model (schema, validators, pre('save') hooks) and the /api/vacations    *)
(* routes (create, update, approve, reject, cancel, balance), with the     *)
(* routes of the schedules (create, update, check-in, check-out) and the   *)
(* creation and deletion of contracts.                                     *)
(*                                                                         *)
(* A stored document is a function from the field names it has to their    *)
(* values, as in the document database: a field that was never set is not  *)
(* in the DOMAIN.  A request body is such a function too.                  *)
(* Times (dates and the clock) are whole days counted from day 0.          *)
(* A text is represented by its length after trimming.                     *)
(* Fields that no guard and no computation reads (tipoVacacion, motivo,    *)
(* observaciones, urgente, afectaSalario, documentoSoporte, the stored     *)
(* reemplazo, the audit fields creadoPor and modificadoPor, timestamps)    *)
(* are left out of the documents.                                          *)
(***************************************************************************)
EXTENDS Integers, Sequences, FiniteSets, TLC

VARIABLES
  vacations,  \* the Vacation collection; the _id of a document is its index
  now,        \* the clock, new Date()
  res,        \* the reply to the latest request served one at a time
  procs,      \* the requests in flight when requests are served concurrently
  schedules,  \* the Schedule collection; the _id of a document is its index
  contracts,  \* the Contract collection; the _id of a document is its index,
              \* and a deleted document leaves its index unused
  users       \* the User collection, by _id: activo, ultimoLogin, and whether
              \* a token has been issued to the user

vars == <<vacations, now, res, procs, schedules, contracts, users>>

(* ---------------- bounds ---------------- *)
MaxVacations == 2
MaxDay == 3
MaxNow == 1
\* The first days and the lengths (fechaFin - fechaInicio) of the date ranges
\* whose day counts are computed on their own.
MaxStart == 6
MaxSpan == 14
\* The most schedules stored.
MaxSchedules == 2
\* The most contracts ever created.
MaxContracts == 3

(* ---------------- users ---------------- *)
\* The user collection: an employee and an HR user (who is an employee of
\* the company too, and may have vacations of their own).
Users == {1, 2}
\* An admin user, who sends requests to the routes restricted by role and
\* is named in no request.
Admin == 3
role == (1 :> "empleado") @@ (2 :> "rrhh") @@ (Admin :> "admin")

\* The users that send requests: the employee, the HR user and the admin.
Requesters == Users \cup {Admin}

\* The stored users as registered: activo by the schema default, no
\* ultimoLogin, and no token issued yet.
NewUsers == [u \in Requesters |-> [activo |-> TRUE, token |-> FALSE]]
\* An id that resolves to no user (User.findById returns null).
NoUser == 9

\* The days a request may name.
Days == 0..MaxDay

Has(d, f) == f \in DOMAIN d

\* { ...l, ...r }: the fields of both, those of r winning.
Spread(l, r) == [f \in (DOMAIN l) \cup (DOMAIN r) |-> IF f \in DOMAIN r THEN r[f] ELSE l[f]]

(* ---------------- Vacation model ---------------- *)
estadoEnum == {"pendiente", "aprobada", "rechazada", "cancelada", "en_curso", "completada"}

MaxMotivoRechazo == 500
MaxDiasSolicitados == 365

\* Date.getDay(): 0 is Sunday, 6 is Saturday.  Day 0 is a Thursday.
getDay(d) == (d + 4) % 7

\* virtual diasTotales
diasTotales(v) ==
  IF ~Has(v, "fechaInicio") \/ ~Has(v, "fechaFin") THEN 0
  ELSE (v.fechaFin - v.fechaInicio) + 1

\* diasHabilesCalculados with `date < fin` as the test of its loop.
diasHabilesCalculados_ExclusiveEnd(v) ==
  IF ~Has(v, "fechaInicio") \/ ~Has(v, "fechaFin") THEN 0
  ELSE Cardinality({d \in v.fechaInicio..(v.fechaFin - 1) : getDay(d) # 0 /\ getDay(d) # 6})

\* virtual diasHabilesCalculados
diasHabilesCalculados(v) ==
  IF ~Has(v, "fechaInicio") \/ ~Has(v, "fechaFin") THEN 0
  ELSE Cardinality({d \in v.fechaInicio..v.fechaFin : getDay(d) # 0 /\ getDay(d) # 6})

\* Date.getFullYear(): day 0 is 1 January 1970, and 1970 and 1971 have 365
\* days each (for the days 0..729).
getFullYear(d) == 1970 + (d \div 365)

\* Schema defaults applied by new Vacation(...).
SchemaDefaults == [estado |-> "pendiente", anoVacacional |-> getFullYear(now)]

\* Document validation (runs before the pre('save') hooks), with
\* `this` the document.
ValidDocument(v) ==
  /\ Has(v, "empleado") /\ Has(v, "fechaInicio") /\ Has(v, "fechaFin")
  /\ v.fechaFin > v.fechaInicio
  /\ v.estado \in estadoEnum
  /\ Has(v, "motivoRechazo") => v.motivoRechazo <= MaxMotivoRechazo
  /\ Has(v, "diasSolicitados") => (2 * v.diasSolicitados >= 1 /\ v.diasSolicitados <= MaxDiasSolicitados)
  /\ Has(v, "diasHabiles") => v.diasHabiles >= 0

\* Update validation (runValidators: true): only the paths of the update are
\* validated, and `this` is not the document, so this.fechaInicio is
\* undefined in the fechaFin validator and `value > undefined` is false.
ValidUpdate(u) ==
  /\ ~Has(u, "fechaFin")
  /\ Has(u, "estado") => u.estado \in estadoEnum
  /\ Has(u, "motivoRechazo") => u.motivoRechazo <= MaxMotivoRechazo
  /\ Has(u, "diasSolicitados") => (2 * u.diasSolicitados >= 1 /\ u.diasSolicitados <= MaxDiasSolicitados)
  /\ Has(u, "diasHabiles") => u.diasHabiles >= 0

\* First pre('save') hook: derived day counts and approval date.
PreSaveCompute(v) ==
  LET a == IF ~Has(v, "diasSolicitados") \/ v.diasSolicitados = 0
           THEN Spread(v, [diasSolicitados |-> diasTotales(v)]) ELSE v
      b == IF ~Has(a, "diasHabiles") \/ a.diasHabiles = 0
           THEN Spread(a, [diasHabiles |-> diasHabilesCalculados(a)]) ELSE a
  IN IF b.estado = "aprobada" /\ ~Has(b, "fechaAprobacion")
     THEN Spread(b, [fechaAprobacion |-> now]) ELSE b

activeStates == {"aprobada", "pendiente", "en_curso"}

\* The conflict query with $lt and $gt: ranges that only touch pass.
Conflicts_TouchingAllowed(store, emp, inicio, fin, self) ==
  {i \in 1..Len(store) :
     /\ i # self
     /\ store[i].empleado = emp
     /\ store[i].estado \in {"aprobada", "pendiente", "en_curso"}
     /\ store[i].fechaInicio < fin
     /\ store[i].fechaFin > inicio}

\* The conflict query asking only whether the stored range starts inside
\* [inicio, fin].
Conflicts_StartInside(store, emp, inicio, fin, self) ==
  {i \in 1..Len(store) :
     /\ i # self
     /\ store[i].empleado = emp
     /\ store[i].estado \in {"aprobada", "pendiente", "en_curso"}
     /\ store[i].fechaInicio <= fin
     /\ store[i].fechaInicio >= inicio}

\* The conflict query without the filter on the estado.
Conflicts_AnyStatus(store, emp, inicio, fin, self) ==
  {i \in 1..Len(store) :
     /\ i # self
     /\ store[i].empleado = emp
     /\ store[i].fechaInicio <= fin
     /\ store[i].fechaFin >= inicio}

\* The conflict query without the filter on the employee.
Conflicts_AnyEmployee(store, emp, inicio, fin, self) ==
  {i \in 1..Len(store) :
     /\ i # self
     /\ store[i].estado \in activeStates
     /\ store[i].fechaInicio <= fin
     /\ store[i].fechaFin >= inicio}

\* The conflict query: a stored vacation of the employee, other than
\* `self`, in an active state, whose dates overlap [inicio, fin].
Conflicts(store, emp, inicio, fin, self) ==
  {i \in 1..Len(store) :
     /\ i # self
     /\ store[i].empleado = emp
     /\ store[i].estado \in activeStates
     /\ store[i].fechaInicio <= fin
     /\ store[i].fechaFin >= inicio}

\* The second hook with the test of the start date on every save, not
\* only that of a new document.
PreSaveValidate_PastOnEverySave(store, v, isNew, self) ==
  /\ ~(v.fechaInicio < now)
  /\ v.estado \in {"aprobada", "pendiente"} =>
       Conflicts(store, v.empleado, v.fechaInicio, v.fechaFin, self) = {}

\* Second pre('save') hook: TRUE iff it calls next() without an error.
PreSaveValidate(store, v, isNew, self) ==
  /\ ~(isNew /\ v.fechaInicio < now)
  /\ v.estado \in {"aprobada", "pendiente"} =>
       Conflicts(store, v.empleado, v.fechaInicio, v.fechaFin, self) = {}

\* document.save(): TRUE iff the document is written.  A new document is
\* validated whole; of a loaded document only the modified paths are, and
\* the routes assign them valid values.
SaveOk(store, v, isNew, self) ==
  /\ isNew => ValidDocument(v)
  /\ PreSaveValidate(store, PreSaveCompute(v), isNew, self)

(* ---------------- auth middleware ---------------- *)
\* authorizeRoles letting every authenticated user pass.
authorizeRoles_AnyRole(roles, user) == role[user] \in {"empleado", "admin", "rrhh"}

authorizeRoles(roles, user) == role[user] \in roles

(* ---------------- responses ---------------- *)
\* The reply of a route: res.status(code).json({ error: ... }), with the
\* route that sent it.  400 'Fechas inválidas' is InvalidDateRange, 400
\* 'Datos de entrada inválidos' is ValidationError, 400 'Estado inválido' is
\* InvalidTransition, 400 'No se puede modificar' is ImmutableState, 403
\* 'Acceso denegado' is Forbidden, 404 is NotFound (of the record, the
\* employee or the replacement), 409 is OverlappingRequest and 500 is what
\* the catch block sends for anything thrown, save() errors included.
Response(op, code, error) == [op |-> op, code |-> code, error |-> error]

\* The two request handlers that may run concurrently.
Procs == {1, 2}

NoFields == [f \in {} |-> 0]

Idle == [pc |-> "idle", user |-> 0, body |-> NoFields, doc |-> NoFields, code |-> 0]

Init ==
  /\ vacations = <<>>
  /\ now = 0
  /\ res = Response("none", 0, "")
  /\ procs = [p \in Procs |-> Idle]
  /\ schedules = <<>>
  /\ contracts = <<>>
  /\ users = NewUsers

\* The clock advances.
Tick ==
  /\ now < MaxNow
  /\ now' = now + 1
  /\ res' = Response("none", 0, "")
  /\ UNCHANGED <<vacations, procs, schedules, contracts, users>>

(* ---------------- request bodies ---------------- *)
\* Fields a client may add to the dates of a create request.
CreateExtras ==
  { NoFields,
    [empleado |-> 1], [empleado |-> 2], [empleado |-> NoUser], [reemplazo |-> NoUser],
    [estado |-> "aprobada"], [estado |-> "en_curso"], [estado |-> "completada"] }

\* Date ranges of a create request: the two-day ranges [a, a + 1], a
\* one-day range (fechaFin = fechaInicio) and a reversed range.
CreateDates ==
  { [fechaInicio |-> a, fechaFin |-> a + 1] : a \in Days \ {MaxDay} } \cup
  { [fechaInicio |-> 1, fechaFin |-> 1], [fechaInicio |-> 2, fechaFin |-> 1] }

CreateBodies == { Spread(d, x) : d \in CreateDates, x \in CreateExtras }

\* Patches of an update request.  The new fechaInicio is the fechaFin of
\* the range [0, 1], lies inside [1, 2] and before [2, 3].
UpdateBodies ==
  { [fechaInicio |-> 1], [fechaFin |-> MaxDay], [estado |-> "rechazada"],
    [reemplazo |-> NoUser] }

\* Reasons of a reject request: absent, blank, longest allowed, too long.
RejectBodies ==
  { NoFields } \cup { [motivoRechazo |-> n] : n \in {0, MaxMotivoRechazo, MaxMotivoRechazo + 1} }

\* Ids a request may name; those beyond the stored documents name none.
Ids == 1..MaxVacations
Exists(id) == id \in 1..Len(vacations)

Reply(op, code, error) ==
  /\ res' = Response(op, code, error)
  /\ UNCHANGED <<vacations, now, procs, schedules, contracts, users>>

(* ---------------- POST /api/vacations ---------------- *)
\* The employee of the request taken from the body for every requester.
CreateEmpleadoId_FromBody(user, body) ==
  IF Has(body, "empleado") THEN body.empleado ELSE user

\* Employees create for themselves only.
CreateEmpleadoId(user, body) ==
  IF role[user] = "empleado" THEN user
  ELSE IF Has(body, "empleado") THEN body.empleado ELSE user

NewVacation(user, body) ==
  Spread(Spread(SchemaDefaults, [f \in DOMAIN body \ {"reemplazo"} |-> body[f]]),
         [empleado |-> CreateEmpleadoId(user, body)])

\* Create with `fechaFin < fechaInicio` as the test of the dates.
Create_EqualDatesAllowed(user, body) ==
  LET empleadoId == CreateEmpleadoId(user, body)
      doc == NewVacation(user, body)
      id == Len(vacations) + 1
  IN
  /\ Len(vacations) < MaxVacations
  /\ IF empleadoId \notin Users
       THEN Reply("create", 404, "Empleado no encontrado")
     ELSE IF Has(body, "reemplazo") /\ body.reemplazo \notin Users
       THEN Reply("create", 404, "Reemplazo no encontrado")
     ELSE IF body.fechaFin < body.fechaInicio
       THEN Reply("create", 400, "Fechas inválidas")
     ELSE IF Conflicts(vacations, empleadoId, body.fechaInicio, body.fechaFin, 0) # {}
       THEN Reply("create", 409, "Fechas en conflicto")
     ELSE IF ~SaveOk(vacations, doc, TRUE, id)
       THEN Reply("create", 500, "Error interno del servidor")
     ELSE /\ vacations' = Append(vacations, PreSaveCompute(doc))
          /\ res' = Response("create", 201, "")
          /\ UNCHANGED <<now, procs, schedules, contracts, users>>

Create(user, body) ==
  LET empleadoId == CreateEmpleadoId(user, body)
      doc == NewVacation(user, body)
      id == Len(vacations) + 1
  IN
  /\ Len(vacations) < MaxVacations
  /\ IF empleadoId \notin Users
       THEN Reply("create", 404, "Empleado no encontrado")
     ELSE IF Has(body, "reemplazo") /\ body.reemplazo \notin Users
       THEN Reply("create", 404, "Reemplazo no encontrado")
     ELSE IF body.fechaFin <= body.fechaInicio
       THEN Reply("create", 400, "Fechas inválidas")
     ELSE IF Conflicts(vacations, empleadoId, body.fechaInicio, body.fechaFin, 0) # {}
       THEN Reply("create", 409, "Fechas en conflicto")
     ELSE IF ~SaveOk(vacations, doc, TRUE, id)
       THEN Reply("create", 500, "Error interno del servidor")
     ELSE /\ vacations' = Append(vacations, PreSaveCompute(doc))
          /\ res' = Response("create", 201, "")
          /\ UNCHANGED <<now, procs, schedules, contracts, users>>

(* ---------------- PUT /api/vacations/:id ---------------- *)
\* Update without the guard on the status of the record.
Update_AnyStatus(user, id, body) ==
  LET updates == [f \in DOMAIN body \ {"reemplazo"} |-> body[f]]
  IN
  IF ~Exists(id)
    THEN Reply("update", 404, "Vacación no encontrada")
  ELSE IF role[user] = "empleado" /\ vacations[id].empleado # user
    THEN Reply("update", 403, "Acceso denegado")
  ELSE IF Has(body, "reemplazo") /\ body.reemplazo \notin Users
    THEN Reply("update", 404, "Reemplazo no encontrado")
  ELSE IF ~ValidUpdate(updates)
    THEN Reply("update", 500, "Error interno del servidor")
  ELSE /\ vacations' = [vacations EXCEPT ![id] = Spread(@, updates)]
       /\ res' = Response("update", 200, "")
       /\ UNCHANGED <<now, procs, schedules, contracts, users>>

\* Update with the ownership guard ahead of the guard on the status.
Update_OwnershipFirst(user, id, body) ==
  LET updates == [f \in DOMAIN body \ {"reemplazo"} |-> body[f]]
  IN
  IF ~Exists(id)
    THEN Reply("update", 404, "Vacación no encontrada")
  ELSE IF role[user] = "empleado" /\ vacations[id].empleado # user
    THEN Reply("update", 403, "Acceso denegado")
  ELSE IF vacations[id].estado # "pendiente"
    THEN Reply("update", 400, "No se puede modificar")
  ELSE IF Has(body, "reemplazo") /\ body.reemplazo \notin Users
    THEN Reply("update", 404, "Reemplazo no encontrado")
  ELSE IF ~ValidUpdate(updates)
    THEN Reply("update", 500, "Error interno del servidor")
  ELSE /\ vacations' = [vacations EXCEPT ![id] = Spread(@, updates)]
       /\ res' = Response("update", 200, "")
       /\ UNCHANGED <<now, procs, schedules, contracts, users>>

\* Update without the ownership guard.
Update_AnyRequester(user, id, body) ==
  LET updates == [f \in DOMAIN body \ {"reemplazo"} |-> body[f]]
  IN
  IF ~Exists(id)
    THEN Reply("update", 404, "Vacación no encontrada")
  ELSE IF vacations[id].estado # "pendiente"
    THEN Reply("update", 400, "No se puede modificar")
  ELSE IF Has(body, "reemplazo") /\ body.reemplazo \notin Users
    THEN Reply("update", 404, "Reemplazo no encontrado")
  ELSE IF ~ValidUpdate(updates)
    THEN Reply("update", 500, "Error interno del servidor")
  ELSE /\ vacations' = [vacations EXCEPT ![id] = Spread(@, updates)]
       /\ res' = Response("update", 200, "")
       /\ UNCHANGED <<now, procs, schedules, contracts, users>>

Update(user, id, body) ==
  LET updates == [f \in DOMAIN body \ {"reemplazo"} |-> body[f]]
  IN
  IF ~Exists(id)
    THEN Reply("update", 404, "Vacación no encontrada")
  ELSE IF vacations[id].estado # "pendiente"
    THEN Reply("update", 400, "No se puede modificar")
  ELSE IF role[user] = "empleado" /\ vacations[id].empleado # user
    THEN Reply("update", 403, "Acceso denegado")
  ELSE IF Has(body, "reemplazo") /\ body.reemplazo \notin Users
    THEN Reply("update", 404, "Reemplazo no encontrado")
  ELSE IF ~ValidUpdate(updates)
    THEN Reply("update", 500, "Error interno del servidor")
  ELSE /\ vacations' = [vacations EXCEPT ![id] = Spread(@, updates)]
       /\ res' = Response("update", 200, "")
       /\ UNCHANGED <<now, procs, schedules, contracts, users>>

(* ---------------- POST /api/vacations/:id/approve ---------------- *)
\* save() that writes the document although a hook failed.
SaveExisting_WritesOnError(op, id, doc) ==
  IF ~SaveOk(vacations, doc, FALSE, id)
    THEN /\ vacations' = [vacations EXCEPT ![id] = PreSaveCompute(doc)]
         /\ res' = Response(op, 500, "Error interno del servidor")
         /\ UNCHANGED <<now, procs, schedules, contracts, users>>
  ELSE /\ vacations' = [vacations EXCEPT ![id] = PreSaveCompute(doc)]
       /\ res' = Response(op, 200, "")
       /\ UNCHANGED <<now, procs, schedules, contracts, users>>

\* Assign the changed fields, then save() the existing document.
SaveExisting(op, id, doc) ==
  IF ~SaveOk(vacations, doc, FALSE, id)
    THEN Reply(op, 500, "Error interno del servidor")
  ELSE /\ vacations' = [vacations EXCEPT ![id] = PreSaveCompute(doc)]
       /\ res' = Response(op, 200, "")
       /\ UNCHANGED <<now, procs, schedules, contracts, users>>

\* Approve without the guard on the status of the record.
Approve_AnyStatus(user, id) ==
  IF ~authorizeRoles({"admin", "rrhh"}, user)
    THEN Reply("approve", 403, "Acceso denegado")
  ELSE IF ~Exists(id)
    THEN Reply("approve", 404, "Vacación no encontrada")
  ELSE SaveExisting("approve", id,
         Spread(vacations[id], [estado |-> "aprobada", aprobadoPor |-> user,
                                fechaAprobacion |-> now]))

Approve(user, id) ==
  IF ~authorizeRoles({"admin", "rrhh"}, user)
    THEN Reply("approve", 403, "Acceso denegado")
  ELSE IF ~Exists(id)
    THEN Reply("approve", 404, "Vacación no encontrada")
  ELSE IF vacations[id].estado # "pendiente"
    THEN Reply("approve", 400, "Estado inválido")
  ELSE SaveExisting("approve", id,
         Spread(vacations[id], [estado |-> "aprobada", aprobadoPor |-> user,
                                fechaAprobacion |-> now]))

(* ---------------- POST /api/vacations/:id/reject ---------------- *)
\* body('motivoRechazo').trim().notEmpty().isLength({ max: 500 })
\* The reject validation without notEmpty().
ValidRejectBody_BlankAllowed(body) ==
  /\ Has(body, "motivoRechazo")
  /\ body.motivoRechazo <= MaxMotivoRechazo

ValidRejectBody(body) ==
  /\ Has(body, "motivoRechazo")
  /\ body.motivoRechazo > 0
  /\ body.motivoRechazo <= MaxMotivoRechazo

\* Reject leaving the decider unrecorded.
Reject_NoDecider(user, id, body) ==
  IF ~authorizeRoles({"admin", "rrhh"}, user)
    THEN Reply("reject", 403, "Acceso denegado")
  ELSE IF ~ValidRejectBody(body)
    THEN Reply("reject", 400, "Datos de entrada inválidos")
  ELSE IF ~Exists(id)
    THEN Reply("reject", 404, "Vacación no encontrada")
  ELSE IF vacations[id].estado # "pendiente"
    THEN Reply("reject", 400, "Estado inválido")
  ELSE SaveExisting("reject", id,
         Spread(vacations[id], [estado |-> "rechazada", motivoRechazo |-> body.motivoRechazo,
                                fechaAprobacion |-> now]))

Reject(user, id, body) ==
  IF ~authorizeRoles({"admin", "rrhh"}, user)
    THEN Reply("reject", 403, "Acceso denegado")
  ELSE IF ~ValidRejectBody(body)
    THEN Reply("reject", 400, "Datos de entrada inválidos")
  ELSE IF ~Exists(id)
    THEN Reply("reject", 404, "Vacación no encontrada")
  ELSE IF vacations[id].estado # "pendiente"
    THEN Reply("reject", 400, "Estado inválido")
  ELSE SaveExisting("reject", id,
         Spread(vacations[id], [estado |-> "rechazada", motivoRechazo |-> body.motivoRechazo,
                                aprobadoPor |-> user, fechaAprobacion |-> now]))

(* ---------------- POST /api/vacations/:id/cancel ---------------- *)
\* Cancel without the guard on the status of the record.
Cancel_AnyStatus(user, id) ==
  IF ~Exists(id)
    THEN Reply("cancel", 404, "Vacación no encontrada")
  ELSE IF role[user] = "empleado" /\ vacations[id].empleado # user
    THEN Reply("cancel", 403, "Acceso denegado")
  ELSE SaveExisting("cancel", id,
         Spread(vacations[id], [estado |-> "cancelada"]))

\* Cancel that removes the document (findByIdAndDelete) instead of
\* setting its estado.
Cancel_HardDelete(user, id) ==
  IF ~Exists(id)
    THEN Reply("cancel", 404, "Vacación no encontrada")
  ELSE IF role[user] = "empleado" /\ vacations[id].empleado # user
    THEN Reply("cancel", 403, "Acceso denegado")
  ELSE IF vacations[id].estado \notin {"pendiente", "aprobada"}
    THEN Reply("cancel", 400, "Estado inválido")
  ELSE /\ vacations' = SubSeq(vacations, 1, id - 1) \o SubSeq(vacations, id + 1, Len(vacations))
       /\ res' = Response("cancel", 200, "")
       /\ UNCHANGED <<now, procs, schedules, contracts, users>>

\* Cancel without the ownership guard.
Cancel_AnyRequester(user, id) ==
  IF ~Exists(id)
    THEN Reply("cancel", 404, "Vacación no encontrada")
  ELSE IF vacations[id].estado \notin {"pendiente", "aprobada"}
    THEN Reply("cancel", 400, "Estado inválido")
  ELSE SaveExisting("cancel", id,
         Spread(vacations[id], [estado |-> "cancelada"]))

Cancel(user, id) ==
  IF ~Exists(id)
    THEN Reply("cancel", 404, "Vacación no encontrada")
  ELSE IF role[user] = "empleado" /\ vacations[id].empleado # user
    THEN Reply("cancel", 403, "Acceso denegado")
  ELSE IF vacations[id].estado \notin {"pendiente", "aprobada"}
    THEN Reply("cancel", 400, "Estado inválido")
  ELSE SaveExisting("cancel", id,
         Spread(vacations[id], [estado |-> "cancelada"]))

Next ==
  \/ Tick
  \/ \E user \in Users, body \in CreateBodies : Create(user, body)
  \/ \E user \in Users, id \in Ids, body \in UpdateBodies : Update(user, id, body)
  \/ \E user \in Users, id \in Ids : Approve(user, id)
  \/ \E user \in Users, id \in Ids, body \in RejectBodies : Reject(user, id, body)
  \/ \E user \in Users, id \in Ids : Cancel(user, id)

Spec == Init /\ [][Next]_vars

(* ---------------- concurrent create requests ---------------- *)
\* POST /api/vacations awaits three times on the Vacation collection: the
\* conflict query of the route, the conflict query of the second pre('save')
\* hook, and the insert.  Another request may run between any two of them.
ConcBodies == { Spread(d, x) : d \in CreateDates, x \in {NoFields, [empleado |-> 1]} }

ConcStart(p, user, body) ==
  /\ procs[p].pc = "idle"
  /\ procs' = [procs EXCEPT ![p] = [Idle EXCEPT !.pc = "route", !.user = user, !.body = body]]
  /\ UNCHANGED <<vacations, now, res, schedules, contracts, users>>

ConcDone(p, code) ==
  /\ procs' = [procs EXCEPT ![p].pc = "done", ![p].code = code]
  /\ UNCHANGED <<vacations, now, res, schedules, contracts, users>>

\* The route up to its conflict query.
ConcRoute(p) ==
  LET user == procs[p].user
      body == procs[p].body
      empleadoId == CreateEmpleadoId(user, body)
  IN
  /\ procs[p].pc = "route"
  /\ IF empleadoId \notin Users THEN ConcDone(p, 404)
     ELSE IF Has(body, "reemplazo") /\ body.reemplazo \notin Users THEN ConcDone(p, 404)
     ELSE IF body.fechaFin <= body.fechaInicio THEN ConcDone(p, 400)
     ELSE IF Conflicts(vacations, empleadoId, body.fechaInicio, body.fechaFin, 0) # {}
       THEN ConcDone(p, 409)
     ELSE /\ procs' = [procs EXCEPT ![p].pc = "save", ![p].doc = NewVacation(user, body)]
          /\ UNCHANGED <<vacations, now, res, schedules, contracts, users>>

\* vacation.save() up to the conflict query of the second hook.
ConcHook(p) ==
  /\ procs[p].pc = "save"
  /\ IF ~SaveOk(vacations, procs[p].doc, TRUE, 0) THEN ConcDone(p, 500)
     ELSE /\ procs' = [procs EXCEPT ![p].pc = "write", ![p].doc = PreSaveCompute(procs[p].doc)]
          /\ UNCHANGED <<vacations, now, res, schedules, contracts, users>>

\* The insert, and the 201 reply.
ConcWrite(p) ==
  /\ procs[p].pc = "write"
  /\ vacations' = Append(vacations, procs[p].doc)
  /\ procs' = [procs EXCEPT ![p].pc = "done", ![p].code = 201]
  /\ UNCHANGED <<now, res, schedules, contracts, users>>

NextConc ==
  \/ \E p \in Procs, user \in Users, body \in ConcBodies : ConcStart(p, user, body)
  \/ \E p \in Procs : ConcRoute(p)
  \/ \E p \in Procs : ConcHook(p)
  \/ \E p \in Procs : ConcWrite(p)

SpecConc == Init /\ [][NextConc]_vars

(* ---------------- concurrent approve, reject and cancel ---------------- *)
\* Each of the three handlers awaits twice on the Vacation collection:
\* findById, and save().  Another request may run between the two.  The
\* requests name record 1; body.read is the document as findById returned
\* it and doc the document in memory after the assignments of the handler.
DecideOps == {"approve", "reject", "cancel"}

\* One pending request of employee 1 is stored.
InitDecide ==
  /\ now = 0
  /\ vacations = << PreSaveCompute(Spread(SchemaDefaults,
                       [empleado |-> 1, fechaInicio |-> 0, fechaFin |-> 1])) >>
  /\ res = Response("none", 0, "")
  /\ procs = [p \in Procs |-> Idle]
  /\ schedules = <<>>
  /\ contracts = <<>>
  /\ users = NewUsers

DecideStart(p, user, op) ==
  /\ procs[p].pc = "idle"
  /\ procs' = [procs EXCEPT ![p] = [Idle EXCEPT !.pc = "find", !.user = user,
                  !.body = [op |-> op, id |-> 1, motivoRechazo |-> MaxMotivoRechazo]]]
  /\ UNCHANGED <<vacations, now, res, schedules, contracts, users>>

\* The fields the handler assigns to the loaded document.
DecideAssigned(op, user, body) ==
  IF op = "approve"
    THEN [estado |-> "aprobada", aprobadoPor |-> user, fechaAprobacion |-> now]
  ELSE IF op = "reject"
    THEN [estado |-> "rechazada", motivoRechazo |-> body.motivoRechazo,
          aprobadoPor |-> user, fechaAprobacion |-> now]
  ELSE [estado |-> "cancelada"]

\* The handler up to save(): the middleware, findById, the guards and the
\* assignments.
DecideFind(p) ==
  LET user == procs[p].user
      body == procs[p].body
      op == body.op
      v == vacations[body.id]
  IN
  /\ procs[p].pc = "find"
  /\ IF op \in {"approve", "reject"} /\ ~authorizeRoles({"admin", "rrhh"}, user)
       THEN ConcDone(p, 403)
     ELSE IF ~Exists(body.id)
       THEN ConcDone(p, 404)
     ELSE IF op = "cancel" /\ role[user] = "empleado" /\ v.empleado # user
       THEN ConcDone(p, 403)
     ELSE IF op \in {"approve", "reject"} /\ v.estado # "pendiente"
       THEN ConcDone(p, 400)
     ELSE IF op = "cancel" /\ v.estado \notin {"pendiente", "aprobada"}
       THEN ConcDone(p, 400)
     ELSE /\ procs' = [procs EXCEPT ![p].pc = "save",
                                     ![p].body = Spread(body, [read |-> v]),
                                     ![p].doc = Spread(v, DecideAssigned(op, user, body))]
          /\ UNCHANGED <<vacations, now, res, schedules, contracts, users>>

\* The update save() sends for a loaded document: $set of the paths whose
\* value differs from the one read, with no test of the stored estado.
ModifiedPaths(read, doc) ==
  {f \in DOMAIN doc : ~Has(read, f) \/ doc[f] # read[f]}

\* vacation.save() and the 200 reply.
DecideSave(p) ==
  LET id == procs[p].body.id
      read == procs[p].body.read
      doc == PreSaveCompute(procs[p].doc)
  IN
  /\ procs[p].pc = "save"
  /\ IF ~PreSaveValidate(vacations, doc, FALSE, id)
       THEN ConcDone(p, 500)
     ELSE /\ vacations' = [vacations EXCEPT ![id] =
                 Spread(@, [f \in ModifiedPaths(read, doc) |-> doc[f]])]
          /\ procs' = [procs EXCEPT ![p].pc = "done", ![p].code = 200]
          /\ UNCHANGED <<now, res, schedules, contracts, users>>

NextDecide ==
  \/ \E p \in Procs, user \in Users, op \in DecideOps : DecideStart(p, user, op)
  \/ \E p \in Procs : DecideFind(p)
  \/ \E p \in Procs : DecideSave(p)

SpecDecide == InitDecide /\ [][NextDecide]_vars

(* ---------------- the day counts of a date range ---------------- *)
\* A new document for each date range [a, a + n], and the first pre('save')
\* hook run on it, which stores the values of the virtuals diasTotales and
\* diasHabilesCalculados.
InitDays ==
  /\ now = 0
  /\ vacations \in { << Spread(SchemaDefaults, [fechaInicio |-> a, fechaFin |-> a + n]) >> :
                        a \in 0..MaxStart, n \in 1..MaxSpan }
  /\ res = Response("none", 0, "")
  /\ procs = [p \in Procs |-> Idle]
  /\ schedules = <<>>
  /\ contracts = <<>>
  /\ users = NewUsers

ComputeDays ==
  /\ ~Has(vacations[1], "diasHabiles")
  /\ vacations' = << PreSaveCompute(vacations[1]) >>
  /\ UNCHANGED <<now, res, procs, schedules, contracts, users>>

NextDays == ComputeDays

SpecDays == InitDays /\ [][NextDays]_vars

(* ---------------- GET /api/vacations/employee/:id/balance ---------------- *)
\* The vacation days of each employee's contract (Contract.diasVacaciones).
ContractDiasVacaciones == (1 :> 22) @@ (2 :> 30)

diasDisponibles == 22

\* vacaciones.reduce((total, vacation) => total + vacation.diasHabiles, 0)
RECURSIVE reduceDiasHabiles(_)
reduceDiasHabiles(vacaciones) ==
  IF vacaciones = <<>> THEN 0
  ELSE Head(vacaciones).diasHabiles + reduceDiasHabiles(Tail(vacaciones))

\* The body of the 200 reply.  The query counts the approved records of
\* every year.
BalanceOf_AnyYear(store, empleadoId, year) ==
  LET vacaciones == SelectSeq(store, LAMBDA v :
                      /\ v.empleado = empleadoId
                      /\ v.estado \in {"aprobada", "en_curso", "completada"})
      diasUtilizados == reduceDiasHabiles(vacaciones)
  IN [empleado |-> empleadoId, ano |-> year,
      diasDisponibles |-> diasDisponibles,
      diasUtilizados |-> diasUtilizados,
      diasRestantes |-> diasDisponibles - diasUtilizados]

\* The body of the 200 reply (its field `año` is `ano` here).
BalanceOf(store, empleadoId, year) ==
  LET vacaciones == SelectSeq(store, LAMBDA v :
                      /\ v.empleado = empleadoId
                      /\ v.anoVacacional = year
                      /\ v.estado \in {"aprobada", "en_curso", "completada"})
      diasUtilizados == reduceDiasHabiles(vacaciones)
  IN [empleado |-> empleadoId, ano |-> year,
      diasDisponibles |-> diasDisponibles,
      diasUtilizados |-> diasUtilizados,
      diasRestantes |-> diasDisponibles - diasUtilizados]

Balance(user, empleadoId, query) ==
  LET year == IF Has(query, "year") THEN query.year ELSE getFullYear(now)
  IN
  IF role[user] = "empleado" /\ empleadoId # user
    THEN Reply("balance", 403, "Acceso denegado")
  ELSE IF empleadoId \notin Users
    THEN Reply("balance", 404, "Empleado no encontrado")
  ELSE /\ res' = Spread(Response("balance", 200, ""), BalanceOf(vacations, empleadoId, year))
       /\ UNCHANGED <<vacations, now, procs, schedules, contracts, users>>

\* Requests around the turn of the year: day 364 is Thursday 31 December
\* 1970, day 365 Friday 1 January 1971, days 366 and 367 a weekend.
BalanceDates ==
  { [fechaInicio |-> 364, fechaFin |-> 365], [fechaInicio |-> 365, fechaFin |-> 366],
    [fechaInicio |-> 366, fechaFin |-> 367] }

BalanceExtras ==
  { NoFields, [anoVacacional |-> 1971], [estado |-> "completada"] }

BalanceBodies == { Spread(d, x) : d \in BalanceDates, x \in BalanceExtras }

BalanceQueries == { NoFields, [year |-> 1970], [year |-> 1971] }

InitBalance ==
  /\ vacations = <<>>
  /\ now = 364
  /\ res = Response("none", 0, "")
  /\ procs = [p \in Procs |-> Idle]
  /\ schedules = <<>>
  /\ contracts = <<>>
  /\ users = NewUsers

\* The clock passes midnight of 31 December.
TickNewYear ==
  /\ now = 364
  /\ now' = 365
  /\ res' = Response("none", 0, "")
  /\ UNCHANGED <<vacations, procs, schedules, contracts, users>>

NextBalance ==
  \/ TickNewYear
  \/ \E user \in Users, body \in BalanceBodies : Create(user, body)
  \/ \E user \in Users, id \in Ids : Approve(user, id)
  \/ \E user \in Users, id \in Ids : Cancel(user, id)
  \/ \E user \in Users, empleadoId \in Users \cup {NoUser}, query \in BalanceQueries :
       Balance(user, empleadoId, query)

SpecBalance == InitBalance /\ [][NextBalance]_vars

(* ---------------- POST /api/schedules ---------------- *)
\* Times of day are minutes after midnight ("09:00" is 540).
\* Schema defaults applied by new Schedule(...).
ScheduleDefaults == [tipoJornada |-> "completa", estado |-> "programado", horasExtras |-> 0]

\* The express-validator chain of the route: empleado, fecha, horaEntrada
\* and horaSalida are required.
ValidScheduleBody(body) ==
  /\ Has(body, "empleado") /\ Has(body, "fecha")
  /\ Has(body, "horaEntrada") /\ Has(body, "horaSalida")

\* scheduleSchema.pre('save'): TRUE iff it calls next() without an error.
SchedulePreSave(v) ==
  LET entrada == v.horaEntrada
      salida == IF v.horaSalida <= entrada THEN v.horaSalida + 1440 ELSE v.horaSalida
  IN ~(salida <= entrada)

ScheduleBodies ==
  { [empleado |-> e, fecha |-> f, horaEntrada |-> 540, horaSalida |-> 1020] :
      e \in {1, NoUser}, f \in {0, 1} } \cup
  { [empleado |-> 1, fecha |-> 0, horaEntrada |-> 540] }

CreateSchedule(user, body) ==
  IF ~authorizeRoles({"admin", "rrhh"}, user)
    THEN Reply("createSchedule", 403, "Acceso denegado")
  ELSE IF ~ValidScheduleBody(body)
    THEN Reply("createSchedule", 400, "Datos de entrada inválidos")
  ELSE IF body.empleado \notin Users
    THEN Reply("createSchedule", 404, "Empleado no encontrado")
  ELSE IF \E i \in 1..Len(schedules) :
            schedules[i].empleado = body.empleado /\ schedules[i].fecha = body.fecha
    THEN Reply("createSchedule", 409, "Horario ya existe")
  ELSE IF ~SchedulePreSave(Spread(ScheduleDefaults, body))
    THEN Reply("createSchedule", 500, "Error interno del servidor")
  ELSE /\ schedules' = Append(schedules, Spread(ScheduleDefaults, body))
       /\ res' = Response("createSchedule", 201, "")
       /\ UNCHANGED <<vacations, now, procs, contracts, users>>

\* virtual horasPlanificadas, in minutes.
horasPlanificadas(v) ==
  IF ~Has(v, "horaEntrada") \/ ~Has(v, "horaSalida") THEN 0
  ELSE LET entrada == v.horaEntrada
           salida == IF v.horaSalida < entrada THEN v.horaSalida + 1440 ELSE v.horaSalida
       IN salida - entrada

ScheduleIds == 1..MaxSchedules
ScheduleExists(id) == id \in 1..Len(schedules)

(* ---------------- PUT /api/schedules/:id ---------------- *)
\* Patches of an update: another date, another exit time.
SchedulePatches == { [fecha |-> 0], [fecha |-> 1], [horaSalida |-> 540] }

UpdateSchedule(user, id, body) ==
  IF ~authorizeRoles({"admin", "rrhh"}, user)
    THEN Reply("updateSchedule", 403, "Acceso denegado")
  ELSE IF ~ScheduleExists(id)
    THEN Reply("updateSchedule", 404, "Horario no encontrado")
  ELSE /\ schedules' = [schedules EXCEPT ![id] = Spread(@, body)]
       /\ res' = Response("updateSchedule", 200, "")
       /\ UNCHANGED <<vacations, now, procs, contracts, users>>

(* ---------------- POST /api/schedules/:id/checkin and /checkout ---------------- *)
\* now.toTimeString().slice(0, 5): the time of day of the request, which is
\* a non-empty text and so truthy also at "00:00".
HorasActuales == {0, 540}

\* Check-in without the test of a recorded entry.
CheckIn_Repeatable(user, id, horaActual) ==
  IF ~ScheduleExists(id)
    THEN Reply("checkin", 404, "Horario no encontrado")
  ELSE IF role[user] = "empleado" /\ schedules[id].empleado # user
    THEN Reply("checkin", 403, "Acceso denegado")
  ELSE IF ~SchedulePreSave(schedules[id])
    THEN Reply("checkin", 500, "Error interno del servidor")
  ELSE /\ schedules' = [schedules EXCEPT ![id] =
              Spread(@, [horaEntradaReal |-> horaActual, estado |-> "en_curso"])]
       /\ res' = Response("checkin", 200, "")
       /\ UNCHANGED <<vacations, now, procs, contracts, users>>

CheckIn(user, id, horaActual) ==
  IF ~ScheduleExists(id)
    THEN Reply("checkin", 404, "Horario no encontrado")
  ELSE IF role[user] = "empleado" /\ schedules[id].empleado # user
    THEN Reply("checkin", 403, "Acceso denegado")
  ELSE IF Has(schedules[id], "horaEntradaReal")
    THEN Reply("checkin", 400, "Entrada ya registrada")
  ELSE IF ~SchedulePreSave(schedules[id])
    THEN Reply("checkin", 500, "Error interno del servidor")
  ELSE /\ schedules' = [schedules EXCEPT ![id] =
              Spread(@, [horaEntradaReal |-> horaActual, estado |-> "en_curso"])]
       /\ res' = Response("checkin", 200, "")
       /\ UNCHANGED <<vacations, now, procs, contracts, users>>

CheckOut(user, id, horaActual) ==
  IF ~ScheduleExists(id)
    THEN Reply("checkout", 404, "Horario no encontrado")
  ELSE IF role[user] = "empleado" /\ schedules[id].empleado # user
    THEN Reply("checkout", 403, "Acceso denegado")
  ELSE IF ~Has(schedules[id], "horaEntradaReal")
    THEN Reply("checkout", 400, "Sin entrada registrada")
  ELSE IF Has(schedules[id], "horaSalidaReal")
    THEN Reply("checkout", 400, "Salida ya registrada")
  ELSE IF ~SchedulePreSave(schedules[id])
    THEN Reply("checkout", 500, "Error interno del servidor")
  ELSE /\ schedules' = [schedules EXCEPT ![id] =
              Spread(@, [horaSalidaReal |-> horaActual, estado |-> "completado"])]
       /\ res' = Response("checkout", 200, "")
       /\ UNCHANGED <<vacations, now, procs, contracts, users>>

\* Schedules of the employee and of the HR user.
AttendanceBodies ==
  { [empleado |-> e, fecha |-> 0, horaEntrada |-> 540, horaSalida |-> 1020] : e \in Users }

NextAttendance ==
  \/ \E user \in Users, body \in AttendanceBodies :
       Len(schedules) < MaxSchedules /\ CreateSchedule(user, body)
  \/ \E user \in Users, id \in ScheduleIds, horaActual \in HorasActuales :
       CheckIn(user, id, horaActual)
  \/ \E user \in Users, id \in ScheduleIds, horaActual \in HorasActuales :
       CheckOut(user, id, horaActual)

SpecAttendance == Init /\ [][NextAttendance]_vars

\* Schedules of the employee on two dates, with the exit after the entry,
\* at the entry, and before it (across midnight).
HoursBodies ==
  { [empleado |-> 1, fecha |-> f, horaEntrada |-> 540, horaSalida |-> h] :
      f \in {0, 1}, h \in {1020, 540, 360} }

NextSchedules ==
  \/ \E user \in Users, body \in HoursBodies :
       Len(schedules) < MaxSchedules /\ CreateSchedule(user, body)
  \/ \E user \in Users, id \in ScheduleIds, body \in SchedulePatches :
       UpdateSchedule(user, id, body)

SpecSchedules == Init /\ [][NextSchedules]_vars

(* ---------------- the routes restricted by role ---------------- *)
RolesBodies == { d \in CreateDates : d.fechaFin > d.fechaInicio }

NextRoles ==
  \/ Tick
  \/ \E body \in RolesBodies : Create(1, body)
  \/ \E user \in Requesters, id \in Ids : Approve(user, id)
  \/ \E user \in Requesters, id \in Ids, body \in RejectBodies : Reject(user, id, body)
  \/ \E user \in Requesters, body \in ScheduleBodies : CreateSchedule(user, body)

SpecRoles == Init /\ [][NextRoles]_vars

(* ---------------- create requests that supply the day counts ---------------- *)
\* Day counts a client may add to the dates of a create request.
SuppliedExtras ==
  { NoFields, [diasHabiles |-> 0], [diasHabiles |-> 1], [diasSolicitados |-> 1],
    [diasSolicitados |-> 1, diasHabiles |-> 0] }

SuppliedBodies == { Spread(d, x) : d \in CreateDates, x \in SuppliedExtras }

NextSupplied ==
  \/ Tick
  \/ \E user \in Users, body \in SuppliedBodies : Create(user, body)

SpecSupplied == Init /\ [][NextSupplied]_vars

(* ---------------- requests for two employees ---------------- *)
\* Requests of the employee (for himself) and of the HR user (for herself
\* or, naming him, for the employee) on date ranges that share days.
EmployeesBodies ==
  { Spread(d, x) : d \in RolesBodies,
                   x \in {NoFields, [empleado |-> 1], [estado |-> "completada"]} }

\* Patches of an update: new dates, and another employee as the owner.
EmployeesPatches == { [fechaInicio |-> 1], [empleado |-> 2] }

NextEmployees ==
  \/ \E user \in Users, body \in EmployeesBodies : Create(user, body)
  \/ \E user \in Users, id \in Ids, body \in EmployeesPatches : Update(user, id, body)
  \/ \E user \in Users, id \in Ids : Approve(user, id)
  \/ \E user \in Users, id \in Ids : Reject(user, id, [motivoRechazo |-> MaxMotivoRechazo])
  \/ \E user \in Users, id \in Ids : Cancel(user, id)

SpecEmployees == Init /\ [][NextEmployees]_vars

(* ---------------- requests on records whose start date has passed ---------------- *)
NextPast ==
  \/ Tick
  \/ \E user \in Users, body \in RolesBodies : Create(user, body)
  \/ \E user \in Users, id \in Ids : Approve(user, id)
  \/ \E user \in Users, id \in Ids : Reject(user, id, [motivoRechazo |-> MaxMotivoRechazo])
  \/ \E user \in Users, id \in Ids : Cancel(user, id)

SpecPast == Init /\ [][NextPast]_vars

(* ---------------- the virtual vigente ---------------- *)
\* new Date() is an instant, not a day: instants are counted in parts of a
\* day, a stored date being the first instant (midnight) of its day.
InstantsPerDay == 2
Instant(day, part) == InstantsPerDay * day + part

\* virtual vigente, read at the instant hoy.
vigente(v, hoy) ==
  /\ Instant(v.fechaInicio, 0) <= hoy
  /\ Instant(v.fechaFin, 0) >= hoy
  /\ v.estado = "aprobada"

\* One stored record, of any estado.
InitVigente ==
  /\ now = 0
  /\ vacations \in { << Spread(SchemaDefaults,
                          [empleado |-> 1, fechaInicio |-> a, fechaFin |-> a + n, estado |-> e]) >> :
                        a \in 0..1, n \in 1..2, e \in estadoEnum }
  /\ res = Response("none", 0, "")
  /\ procs = [p \in Procs |-> Idle]
  /\ schedules = <<>>
  /\ contracts = <<>>
  /\ users = NewUsers

\* The clock reaches the next day.
TickDay ==
  /\ now < MaxDay
  /\ now' = now + 1
  /\ res' = Response("none", 0, "")
  /\ UNCHANGED <<vacations, procs, schedules, contracts, users>>

\* A read of the record (toJSON with virtuals) at midnight of the day
\* `now` (part 0) or later that day.
ReadVigente(part) ==
  /\ res' = [op |-> "vigente", code |-> 200, error |-> "",
             vigente |-> vigente(vacations[1], Instant(now, part))]
  /\ UNCHANGED <<vacations, now, procs, schedules, contracts, users>>

NextVigente ==
  \/ TickDay
  \/ \E part \in 0..(InstantsPerDay - 1) : ReadVigente(part)

SpecVigente == InitVigente /\ [][NextVigente]_vars

(* ---------------- contracts: POST and DELETE /api/contracts ---------------- *)
\* What findByIdAndDelete leaves at the index of a document.
DeletedContract == [deleted |-> TRUE]

ContractIds == 1..MaxContracts
ContractExists(id) == id \in 1..Len(contracts) /\ ~Has(contracts[id], "deleted")

\* Schema default of a new contract.
ContractDefaults == [estado |-> "borrador"]

\* countDocuments({ createdAt: { $gte: 1 Jan of year, $lt: 1 Jan of year + 1 } })
countDocuments(year) ==
  Cardinality({i \in 1..Len(contracts) :
                 ContractExists(i) /\ getFullYear(contracts[i].createdAt) = year})

\* `CONT-${year}-${String(n).padStart(4, '0')}`: the texts of two pairs
\* are the same only when the pairs are.
ContractNumber(year, n) == <<year, n>>

\* contractSchema.pre('save'): the number given to a new contract that has
\* none.
WithNumeroContrato(doc) ==
  IF ~Has(doc, "numeroContrato")
    THEN Spread(doc, [numeroContrato |->
                        ContractNumber(getFullYear(now), countDocuments(getFullYear(now)) + 1)])
  ELSE doc

\* Bodies of a create: a draft, a contract created active, one for a user
\* that does not exist.
ContractBodies ==
  { [empleado |-> 1], [empleado |-> 1, estado |-> "activo"], [empleado |-> NoUser] }

CreateContract(user, body) ==
  LET doc == WithNumeroContrato(Spread(Spread(ContractDefaults, body), [createdAt |-> now]))
  IN
  /\ Len(contracts) < MaxContracts
  /\ IF ~authorizeRoles({"admin", "rrhh"}, user)
       THEN Reply("createContract", 403, "Acceso denegado")
     ELSE IF body.empleado \notin Users
       THEN Reply("createContract", 404, "Empleado no encontrado")
     ELSE IF \E i \in 1..Len(contracts) :
               ContractExists(i) /\ contracts[i].numeroContrato = doc.numeroContrato
       THEN Reply("createContract", 500, "Error interno del servidor")
     ELSE /\ contracts' = Append(contracts, doc)
          /\ res' = Response("createContract", 201, "")
          /\ UNCHANGED <<vacations, now, procs, schedules, users>>

DeleteContract(user, id) ==
  IF ~authorizeRoles({"admin", "rrhh"}, user)
    THEN Reply("deleteContract", 403, "Acceso denegado")
  ELSE IF ~ContractExists(id)
    THEN Reply("deleteContract", 404, "Contrato no encontrado")
  ELSE IF contracts[id].estado # "borrador"
    THEN Reply("deleteContract", 400, "No se puede eliminar")
  ELSE /\ contracts' = [contracts EXCEPT ![id] = DeletedContract]
       /\ res' = Response("deleteContract", 200, "")
       /\ UNCHANGED <<vacations, now, procs, schedules, users>>

NextContracts ==
  \/ \E user \in Users, body \in ContractBodies : CreateContract(user, body)
  \/ \E user \in Users, id \in ContractIds : DeleteContract(user, id)

SpecContracts == Init /\ [][NextContracts]_vars

(* ---------------- authentication and the activo flag of a user ---------------- *)
\* authenticateToken with `!user || !user.activo` left out.
TokenAccepted_Inactive(u) == u \in Requesters

\* authenticateToken, for a token that verifies and names user u: whether
\* the request goes on (`!user || !user.activo` answers 401).
TokenAccepted(u) == u \in Requesters /\ users[u].activo

\* user.ultimoLogin = new Date(); await user.save()
Touched(u) == [users EXCEPT ![u] = Spread(@, [ultimoLogin |-> now])]

\* The 401 of authenticateToken.
Unauthenticated(op) == Reply(op, 401, "Token inválido")

\* A reply sent after authenticateToken saved ultimoLogin.
ReplyTouched(u, op, code, error) ==
  /\ res' = Response(op, code, error)
  /\ users' = Touched(u)
  /\ UNCHANGED <<vacations, now, procs, schedules, contracts>>

\* Bodies of a login: the right password, a wrong one, none.
LoginBodies == { [password |-> "right"], [password |-> "wrong"], NoFields }

\* POST /api/auth/login with the email of user u.
Login(u, body) ==
  IF ~Has(body, "password")
    THEN Reply("login", 400, "Datos de entrada inválidos")
  ELSE IF u \notin Requesters \/ ~users[u].activo
    THEN Reply("login", 401, "Credenciales inválidas")
  ELSE IF body.password # "right"
    THEN Reply("login", 401, "Credenciales inválidas")
  ELSE /\ users' = [users EXCEPT ![u] = Spread(@, [ultimoLogin |-> now, token |-> TRUE])]
       /\ res' = Response("login", 200, "")
       /\ UNCHANGED <<vacations, now, procs, schedules, contracts>>

\* GET /api/auth/me with a token issued to u.
Me(u) ==
  /\ users[u].token
  /\ IF ~TokenAccepted(u) THEN Unauthenticated("me")
     ELSE ReplyTouched(u, "me", 200, "")

\* DELETE /api/users/:id with a token issued to u.
DeleteUser(u, id) ==
  /\ users[u].token
  /\ IF ~TokenAccepted(u) THEN Unauthenticated("deleteUser")
     ELSE IF ~authorizeRoles({"admin", "rrhh"}, u)
       THEN ReplyTouched(u, "deleteUser", 403, "Acceso denegado")
     ELSE IF id \notin Requesters
       THEN ReplyTouched(u, "deleteUser", 404, "Usuario no encontrado")
     ELSE /\ users' = [Touched(u) EXCEPT ![id].activo = FALSE]
          /\ res' = Response("deleteUser", 200, "")
          /\ UNCHANGED <<vacations, now, procs, schedules, contracts>>

\* PUT /api/users/:id/activate with a token issued to u.
ActivateUser(u, id) ==
  /\ users[u].token
  /\ IF ~TokenAccepted(u) THEN Unauthenticated("activateUser")
     ELSE IF ~authorizeRoles({"admin", "rrhh"}, u)
       THEN ReplyTouched(u, "activateUser", 403, "Acceso denegado")
     ELSE IF id \notin Requesters
       THEN ReplyTouched(u, "activateUser", 404, "Usuario no encontrado")
     ELSE /\ users' = [Touched(u) EXCEPT ![id].activo = TRUE]
          /\ res' = Response("activateUser", 200, "")
          /\ UNCHANGED <<vacations, now, procs, schedules, contracts>>

\* The users a login or a request names: the stored ones and one that does
\* not exist.
UserIds == Requesters \cup {NoUser}

NextAuth ==
  \/ Tick
  \/ \E u \in UserIds, body \in LoginBodies : Login(u, body)
  \/ \E u \in Requesters : Me(u)
  \/ \E u \in Requesters, id \in UserIds : DeleteUser(u, id)
  \/ \E u \in Requesters, id \in UserIds : ActivateUser(u, id)

SpecAuth == Init /\ [][NextAuth]_vars

(* ---------------- the conflict query on its own ---------------- *)
\* One stored pending record of employee 1 with each range [a, b], a <= b,
\* and Vacation.findOne with the conflict filter for each range
\* [inicio, fin]; the reply says whether a document was found.
InitOverlap ==
  /\ vacations \in { << [empleado |-> 1, estado |-> "pendiente", fechaInicio |-> a, fechaFin |-> b] >> :
                        a \in Days, b \in Days }
  /\ vacations[1].fechaInicio <= vacations[1].fechaFin
  /\ now = 0
  /\ res = Response("none", 0, "")
  /\ procs = [p \in Procs |-> Idle]
  /\ schedules = <<>>
  /\ contracts = <<>>
  /\ users = NewUsers

FindConflict(inicio, fin) ==
  /\ inicio <= fin
  /\ res' = [op |-> "findOne", inicio |-> inicio, fin |-> fin,
             found |-> Conflicts(vacations, 1, inicio, fin, 0) # {}]
  /\ UNCHANGED <<vacations, now, procs, schedules, contracts, users>>

NextOverlap == \E inicio \in Days, fin \in Days : FindConflict(inicio, fin)

SpecOverlap == InitOverlap /\ [][NextOverlap]_vars

(* ======================= properties ======================= *)
Stored == 1..Len(vacations)
Elevated(user) == role[user] \in {"admin", "rrhh"}
SharesADay(aStart, aEnd, bStart, bEnd) == aStart <= bEnd /\ bStart <= aEnd
InActiveStatus(v) == v.estado \in {"pendiente", "aprobada", "en_curso"}

\* C1: after any sequence of create, update, approve, reject and cancel
\* requests served one at a time, no employee has two stored records, both
\* in status pending, approved or in_progress, whose inclusive date ranges
\* share a day.
C1_NoOverlappingActive ==
  \A i \in Stored, j \in Stored :
    (i < j /\ vacations[i].empleado = vacations[j].empleado
           /\ InActiveStatus(vacations[i]) /\ InActiveStatus(vacations[j]))
      => ~SharesADay(vacations[i].fechaInicio, vacations[i].fechaFin,
                     vacations[j].fechaInicio, vacations[j].fechaFin)

\* C2: of two concurrent create requests for the same employee with
\* overlapping date ranges, whatever the interleaving of their steps, at most
\* one succeeds (is answered 201).
C2_AtMostOneConcurrentCreate ==
  \A p \in Procs, q \in Procs :
    (p # q /\ procs[p].code = 201 /\ procs[q].code = 201
       /\ CreateEmpleadoId(procs[p].user, procs[p].body) = CreateEmpleadoId(procs[q].user, procs[q].body))
      => ~SharesADay(procs[p].body.fechaInicio, procs[p].body.fechaFin,
                     procs[q].body.fechaInicio, procs[q].body.fechaFin)

\* C3: the status of a stored record changes only from pending to approved
\* by approve, from pending to rejected by reject, and from pending or
\* approved to cancelled by cancel; an update never changes it.
C3_StatusEdges ==
  [][\A id \in Stored :
       LET a == vacations[id].estado
           b == vacations'[id].estado
       IN a # b =>
            \/ a = "pendiente" /\ b = "aprobada" /\ res'.op = "approve"
            \/ a = "pendiente" /\ b = "rechazada" /\ res'.op = "reject"
            \/ a \in {"pendiente", "aprobada"} /\ b = "cancelada" /\ res'.op = "cancel"]_vars

\* C4: a record comes to be in status approved only by an approve request
\* of a requester with the admin or HR role.
C4_ApprovedOnlyByApprove ==
  [][\A id \in 1..Len(vacations') :
       (vacations'[id].estado = "aprobada"
          /\ (id \notin Stored \/ vacations[id].estado # "aprobada"))
         => \E user \in Users : Elevated(user) /\ id \in Stored /\ Approve(user, id)]_vars

TerminalStatus == {"rechazada", "cancelada", "completada"}

\* C5: once a record is rejected, cancelled or completed, every update,
\* approve, reject and cancel of it fails and the record never changes again.
\* (Stated as: a step whose reply is not a refusal is no request on such a
\* record.)
C5_TerminalAbsorbing ==
  [][\A id \in Stored :
       vacations[id].estado \in TerminalStatus =>
         /\ vacations'[id] = vacations[id]
         /\ \/ res'.code \in {400, 403}
            \/ \A user \in Users :
                 ~(\/ res'.op = "approve" /\ Approve(user, id)
                   \/ res'.op = "cancel" /\ Cancel(user, id)
                   \/ res'.op = "update" /\ \E body \in UpdateBodies : Update(user, id, body)
                   \/ res'.op = "reject" /\ \E body \in RejectBodies : Reject(user, id, body))]_vars

\* A cancel of the only record, which is cancelled already, has been refused.
C5_Witness ==
  /\ Len(vacations) = 1
  /\ vacations[1].estado = "cancelada"
  /\ res = Response("cancel", 400, "Estado inválido")

\* C6: an approve, by a requester allowed to approve, of a record that is
\* not pending is answered 400 'Estado inválido' and changes no record; a
\* second approve leaves aprobadoPor and fechaAprobacion of the first.
C6_ApproveNotPending ==
  [][\A user \in Users, id \in Stored :
       (res'.op = "approve" /\ Elevated(user) /\ vacations[id].estado # "pendiente")
         => \/ res' = Response("approve", 400, "Estado inválido") /\ vacations' = vacations
            \/ ~Approve(user, id)]_vars

\* The only record was approved on day 0 and an approve of it on day 1 has
\* been refused.
C6_Witness ==
  /\ Len(vacations) = 1
  /\ vacations[1].estado = "aprobada"
  /\ Has(vacations[1], "aprobadoPor") /\ vacations[1].aprobadoPor = 2
  /\ vacations[1].fechaAprobacion = 0
  /\ now = 1
  /\ res = Response("approve", 400, "Estado inválido")

\* C7: a reject, by a requester allowed to reject, whose motivoRechazo is
\* absent, blank or longer than 500 characters is answered 400 'Datos de
\* entrada inválidos' and changes no record.
C7_RejectNeedsReason ==
  [][\A user \in Users, id \in Ids, body \in RejectBodies :
       (/\ res'.op = "reject"
        /\ Elevated(user)
        /\ (~Has(body, "motivoRechazo") \/ body.motivoRechazo = 0 \/ body.motivoRechazo > 500))
         => \/ res' = Response("reject", 400, "Datos de entrada inválidos") /\ vacations' = vacations
            \/ ~Reject(user, id, body)]_vars

\* A reject without a valid reason has been refused and the only record is
\* still pending.
C7_Witness ==
  /\ Len(vacations) = 1
  /\ vacations[1].estado = "pendiente"
  /\ res = Response("reject", 400, "Datos de entrada inválidos")

\* C8: every stored record in status rejected has a non-empty motivoRechazo.
C8_RejectedHasReason ==
  \A id \in Stored :
    vacations[id].estado = "rechazada" =>
      Has(vacations[id], "motivoRechazo") /\ vacations[id].motivoRechazo > 0

\* C9: a cancel, by the owner of the record or a requester with the admin
\* or HR role, of a record that is neither pending nor approved is answered
\* 400 'Estado inválido' and changes no record.
C9_CancelNotCancellable ==
  [][\A user \in Users, id \in Stored :
       (/\ res'.op = "cancel"
        /\ Elevated(user) \/ vacations[id].empleado = user
        /\ vacations[id].estado \notin {"pendiente", "aprobada"})
         => \/ res' = Response("cancel", 400, "Estado inválido") /\ vacations' = vacations
            \/ ~Cancel(user, id)]_vars

\* A cancel of the only record, which is rejected, has been refused.
C9_Witness ==
  /\ Len(vacations) = 1
  /\ vacations[1].estado = "rechazada"
  /\ res = Response("cancel", 400, "Estado inválido")

\* C10: a cancel by a requester with the employee role of a record of
\* another employee is answered 403 'Acceso denegado' and changes no record;
\* and no request of a requester with the employee role changes the status
\* of a record of another employee.
C10_EmployeeCannotTouchOthers ==
  [][\A user \in Users, id \in Stored :
       (role[user] = "empleado" /\ vacations[id].empleado # user) =>
         /\ res'.op = "cancel" =>
              \/ res' = Response("cancel", 403, "Acceso denegado") /\ vacations' = vacations
              \/ ~Cancel(user, id)
         /\ \/ vacations'[id].estado = vacations[id].estado
            \/ ~(\/ res'.op = "cancel" /\ Cancel(user, id)
                 \/ res'.op = "approve" /\ Approve(user, id)
                 \/ res'.op = "create" /\ \E body \in CreateBodies : Create(user, body)
                 \/ res'.op = "update" /\ \E body \in UpdateBodies : Update(user, id, body)
                 \/ res'.op = "reject" /\ \E body \in RejectBodies : Reject(user, id, body))]_vars

\* The employee's cancel of the only record, a pending record of the HR
\* user, has been refused.
C10_Witness ==
  /\ Len(vacations) = 1
  /\ vacations[1].empleado = 2
  /\ vacations[1].estado = "pendiente"
  /\ res = Response("cancel", 403, "Acceso denegado")

\* Whether the lookups of a create request find the employee and, when one
\* is named, the replacement.
CreateResolves(user, body) ==
  /\ CreateEmpleadoId(user, body) \in Users
  /\ Has(body, "reemplazo") => body.reemplazo \in Users

\* C11: a create whose fechaFin is not after its fechaInicio stores no
\* record and is refused: with 400 'Fechas inválidas' when the employee and
\* the replacement it names exist, with 404 by the lookups, which run first,
\* when they do not.
C11_CreateInvalidDateRange ==
  [][res'.op = "create" =>
       \A user \in Users, body \in {b \in CreateBodies : b.fechaFin <= b.fechaInicio} :
         \/ /\ vacations' = vacations
            /\ IF CreateResolves(user, body)
                 THEN res' = Response("create", 400, "Fechas inválidas")
                 ELSE res'.code = 404
         \/ ~Create(user, body)]_vars

\* A create has been refused for its dates and nothing is stored.
C11_Witness ==
  /\ vacations = <<>>
  /\ res = Response("create", 400, "Fechas inválidas")

\* C12: a create with valid dates for an existing employee who has a stored
\* record in status pending, approved or in_progress whose inclusive range
\* shares a day with the requested one (the ranges may only touch) is
\* answered 409 'Fechas en conflicto' and stores nothing.
C12_CreateOverlapping ==
  [][res'.op = "create" =>
       \A user \in Users, body \in {b \in CreateBodies : b.fechaFin > b.fechaInicio} :
         (/\ CreateResolves(user, body)
          /\ \E i \in Stored :
               /\ vacations[i].empleado = CreateEmpleadoId(user, body)
               /\ InActiveStatus(vacations[i])
               /\ SharesADay(vacations[i].fechaInicio, vacations[i].fechaFin,
                             body.fechaInicio, body.fechaFin))
           => \/ res' = Response("create", 409, "Fechas en conflicto") /\ vacations' = vacations
              \/ ~Create(user, body)]_vars

\* A create has been refused for a conflict with the only record, which
\* is in progress and ends on day 1; the requests refused so are those for
\* [0, 1] and for [1, 2], which touches it.
C12_Witness ==
  /\ Len(vacations) = 1
  /\ vacations[1].estado = "en_curso"
  /\ vacations[1].fechaInicio = 0 /\ vacations[1].fechaFin = 1
  /\ res = Response("create", 409, "Fechas en conflicto")

\* The Saturdays and Sundays among the days a..b, counted from the
\* calendar: day 0 is a Thursday, so the Saturdays are the days 7k + 2 and
\* the Sundays the days 7k + 3.
WeekendDays(a, b) ==
  (((b + 5) \div 7) - ((a + 4) \div 7)) + (((b + 4) \div 7) - ((a + 3) \div 7))

\* C13: after a successful create, whatever fields the request carried, the
\* record it stored (the last one) is pending, its diasSolicitados is the
\* inclusive day span of its dates and its diasHabiles their weekday count.
C13_CreateStoresPending ==
  res = Response("create", 201, "") =>
    LET v == vacations[Len(vacations)]
    IN /\ v.estado = "pendiente"
       /\ v.diasSolicitados = (v.fechaFin - v.fechaInicio) + 1
       /\ v.diasHabiles = v.diasSolicitados - WeekendDays(v.fechaInicio, v.fechaFin)

\* C14: the record stored by a create of a requester with the employee
\* role has the requester as its empleado, whatever empleado the request
\* names; so a record for another employee is created by admin or HR only.
C14_EmployeeCreatesForSelf ==
  [][(res'.op = "create" /\ res'.code = 201) =>
       \A user \in Users, body \in CreateBodies :
         ~Elevated(user) =>
           \/ /\ Len(vacations') = Len(vacations) + 1
              /\ vacations'[Len(vacations')].empleado = user
           \/ ~Create(user, body)]_vars

\* A create has stored the only record, for the employee; the requests
\* that do so include the employee's naming the HR user as empleado.
C14_Witness ==
  /\ Len(vacations) = 1
  /\ vacations[1].empleado = 1
  /\ res = Response("create", 201, "")

\* C15: an update of a record that is not pending, by any requester and
\* with any patch, is answered 400 'No se puede modificar' and changes no
\* field of any record.
C15_UpdateNotPending ==
  [][res'.op = "update" =>
       \A user \in Users, id \in Stored, body \in UpdateBodies :
         vacations[id].estado # "pendiente" =>
           \/ res' = Response("update", 400, "No se puede modificar") /\ vacations' = vacations
           \/ ~Update(user, id, body)]_vars

\* An update of the only record, an approved record of the HR user, has
\* been refused for its status.
C15_Witness ==
  /\ Len(vacations) = 1
  /\ vacations[1].estado = "aprobada"
  /\ vacations[1].empleado = 2
  /\ res = Response("update", 400, "No se puede modificar")

\* C16: an update of a pending record by a requester with neither the
\* admin nor the HR role who is not the record's empleado is answered 403
\* 'Acceso denegado' and changes no record.
C16_UpdateByNonOwner ==
  [][res'.op = "update" =>
       \A user \in Users, id \in Stored, body \in UpdateBodies :
         (/\ ~Elevated(user)
          /\ vacations[id].empleado # user
          /\ vacations[id].estado = "pendiente")
           => \/ res' = Response("update", 403, "Acceso denegado") /\ vacations' = vacations
              \/ ~Update(user, id, body)]_vars

\* The employee's update of the only record, a pending record of the HR
\* user, has been refused.
C16_Witness ==
  /\ Len(vacations) = 1
  /\ vacations[1].empleado = 2
  /\ vacations[1].estado = "pendiente"
  /\ res = Response("update", 403, "Acceso denegado")

\* C17: every stored record has its fechaFin after its fechaInicio, also
\* after updates that change only one of the two dates.
C17_EndAfterStart ==
  \A id \in Stored : vacations[id].fechaFin > vacations[id].fechaInicio

\* C18: every stored record in status approved or rejected has aprobadoPor
\* and fechaAprobacion, and a pending record has neither.  (That a record
\* cancelled while pending has neither follows from the pending case, a
\* cancel assigning only estado.)
C18_DecisionFields ==
  \A id \in Stored :
    LET v == vacations[id]
    IN /\ v.estado \in {"aprobada", "rechazada"} =>
            Has(v, "aprobadoPor") /\ Has(v, "fechaAprobacion")
       /\ v.estado = "pendiente" =>
            ~Has(v, "aprobadoPor") /\ ~Has(v, "fechaAprobacion")

\* C19: no request changes the diasSolicitados or the diasHabiles of a
\* stored record: not an update of its dates, and not a later approve,
\* reject or cancel.
C19_DayCountsFrozen ==
  [][\A id \in Stored :
       /\ vacations'[id].diasSolicitados = vacations[id].diasSolicitados
       /\ vacations'[id].diasHabiles = vacations[id].diasHabiles]_vars

\* C20: for every date range with fechaInicio < fechaFin, the computed
\* diasSolicitados is (fechaFin - fechaInicio) + 1 and equals the computed
\* diasHabiles plus the Saturdays and Sundays of the range; a range of 15
\* days that starts on a Monday (the days 7k + 4) has diasHabiles 11.
C20_DaySpans ==
  \A id \in Stored :
    LET v == vacations[id]
    IN Has(v, "diasHabiles") =>
         /\ v.diasSolicitados = (v.fechaFin - v.fechaInicio) + 1
         /\ v.diasSolicitados = v.diasHabiles + WeekendDays(v.fechaInicio, v.fechaFin)
         /\ (v.fechaInicio % 7 = 4 /\ v.fechaFin - v.fechaInicio = 14) => v.diasHabiles = 11

\* The counts of the 15 days from Monday day 4 to Monday day 18 have been
\* computed.
C20_Witness ==
  /\ Len(vacations) = 1
  /\ vacations[1].fechaInicio = 4 /\ vacations[1].fechaFin = 18
  /\ Has(vacations[1], "diasHabiles")
  /\ vacations[1].diasSolicitados = 15 /\ vacations[1].diasHabiles = 11

\* C21: the conflict query finds the stored range for a queried range
\* exactly when the two inclusive ranges share a day, and finds it exactly
\* when the query with the two ranges exchanged (the queried one stored, the
\* stored one queried) does.
C21_OverlapSymmetric ==
  res.op = "findOne" =>
    LET a == vacations[1]
        exchanged == << [a EXCEPT !.fechaInicio = res.inicio, !.fechaFin = res.fin] >>
    IN /\ res.found <=> (\E d \in Days : /\ a.fechaInicio <= d /\ d <= a.fechaFin
                                          /\ res.inicio <= d /\ d <= res.fin)
       /\ res.found <=> (Conflicts(exchanged, 1, a.fechaInicio, a.fechaFin, 0) # {})

\* The stored range [0, 1] has been found for the query [1, 2], which
\* touches it.
C21_Witness ==
  /\ res.op = "findOne"
  /\ vacations[1].fechaInicio = 0 /\ vacations[1].fechaFin = 1
  /\ res.inicio = 1 /\ res.fin = 2
  /\ res.found

\* The sum of diasHabiles over the records `ids` of a store.
RECURSIVE SumHabiles(_, _)
SumHabiles(store, ids) ==
  IF ids = {} THEN 0
  ELSE LET i == CHOOSE i \in ids : TRUE
       IN store[i].diasHabiles + SumHabiles(store, ids \ {i})

\* The diasHabiles of all records of an employee for a year, less those
\* of the records that are pending, rejected or cancelled.
UsedDays(store, emp, year) ==
  LET all == {i \in 1..Len(store) : store[i].empleado = emp /\ store[i].anoVacacional = year}
  IN SumHabiles(store, all)
       - SumHabiles(store, {i \in all : store[i].estado \in {"pendiente", "rechazada", "cancelada"}})

\* C22: a balance answered 200 reports as diasUtilizados the sum of
\* diasHabiles over the employee's records of the year that are approved, in
\* progress or completed (pending, rejected and cancelled ones add nothing)
\* and as diasRestantes diasDisponibles less that; and the cancel of an
\* approved record lowers the diasUtilizados of its employee and year by the
\* diasHabiles of the record.
C22_Balance ==
  [][/\ (res'.op = "balance" /\ res'.code = 200) =>
          /\ res'.diasUtilizados = UsedDays(vacations', res'.empleado, res'.ano)
          /\ res'.diasRestantes = res'.diasDisponibles - res'.diasUtilizados
     /\ (res'.op = "cancel" /\ res'.code = 200) =>
          \A id \in Stored :
            (vacations[id].estado = "aprobada" /\ vacations'[id].estado = "cancelada") =>
              BalanceOf(vacations', vacations[id].empleado, vacations[id].anoVacacional).diasUtilizados
                = BalanceOf(vacations, vacations[id].empleado, vacations[id].anoVacacional).diasUtilizados
                    - vacations[id].diasHabiles]_vars

\* A balance has been answered for an employee with days in use who has a
\* record that was cancelled after its approval, for the year of that
\* record.
C22_Witness ==
  /\ res.op = "balance" /\ res.code = 200
  /\ res.diasUtilizados > 0
  /\ \E id \in Stored :
       /\ vacations[id].estado = "cancelada"
       /\ Has(vacations[id], "aprobadoPor")
       /\ vacations[id].diasHabiles > 0
       /\ vacations[id].empleado = res.empleado
       /\ vacations[id].anoVacacional = res.ano

\* C23: a create request that ends at its save() because a stored active
\* record of the same employee shares a day with its (valid, not past)
\* range is answered 409, also when that record was stored by another
\* request after the route's own conflict query.
C23_ConflictIs409 ==
  [][\A p \in Procs :
       (/\ procs[p].pc = "save" /\ procs'[p].pc = "done"
        /\ procs[p].doc.fechaFin > procs[p].doc.fechaInicio
        /\ procs[p].doc.fechaInicio >= now
        /\ \E i \in Stored :
             /\ vacations[i].empleado = procs[p].doc.empleado
             /\ InActiveStatus(vacations[i])
             /\ SharesADay(vacations[i].fechaInicio, vacations[i].fechaFin,
                           procs[p].doc.fechaInicio, procs[p].doc.fechaFin))
         => procs'[p].code = 409]_vars

\* C24: a create, update, approve, reject or cancel that is answered with
\* an error (a 4xx, or the 500 sent when validation or a save hook fails)
\* leaves the stored records and all their fields as they were.
C24_NoPartialWrites ==
  [][res'.code >= 400 => vacations' = vacations]_vars

\* An approve has failed in save(): the pending record 2 overlaps the
\* active record 1 of the same employee, and it is still pending.
C24_Witness ==
  /\ res = Response("approve", 500, "Error interno del servidor")
  /\ Len(vacations) = 2
  /\ vacations[2].estado = "pendiente"
  /\ ~Has(vacations[2], "aprobadoPor")
  /\ InActiveStatus(vacations[1])
  /\ vacations[1].empleado = vacations[2].empleado

\* C25: the record stored by a create has as anoVacacional the year of its
\* fechaInicio, unless the request supplies an anoVacacional, which it then
\* has.
C25_YearOfStartDate ==
  [][(res'.op = "create" /\ res'.code = 201) =>
       \A user \in Users, body \in BalanceBodies :
         \/ vacations'[Len(vacations')].anoVacacional =
              (IF Has(body, "anoVacacional") THEN body.anoVacacional
               ELSE getFullYear(body.fechaInicio))
         \/ ~Create(user, body)]_vars

\* C28: the diasDisponibles of a balance answered 200 is the vacation
\* allowance of the employee's contract.
C28_AllowanceFromContract ==
  (res.op = "balance" /\ res.code = 200) =>
    res.diasDisponibles = ContractDiasVacaciones[res.empleado]

\* C26: no request removes a stored record: the number of records never
\* falls and every id that names a record names one after every step.
C26_NeverDeleted ==
  [][/\ Len(vacations') >= Len(vacations)
     /\ \A id \in Stored : Exists(id)']_vars

\* Two records that reached the end of their lives, one cancelled and one
\* rejected, are both still stored.
C26_Witness ==
  /\ Len(vacations) = 2
  /\ vacations[1].estado = "cancelada"
  /\ vacations[2].estado = "rechazada"
  /\ Has(vacations[2], "aprobadoPor")

\* C27: an approve or reject of a vacation or a create of a schedule by a
\* requester with the employee role is answered 403 'Acceso denegado' and
\* changes no vacation and no schedule; by a requester with the admin or
\* the HR role it is not refused so.
C27_RoleControl ==
  [][res'.op \in {"approve", "reject", "createSchedule"} =>
       \A user \in Requesters :
         LET denied == /\ res'.code = 403 /\ res'.error = "Acceso denegado"
                       /\ vacations' = vacations /\ schedules' = schedules
             asItShould == IF role[user] \in {"admin", "rrhh"} THEN res'.code # 403 ELSE denied
         IN /\ res'.op = "approve" =>
                 \A id \in Ids : asItShould \/ ~Approve(user, id)
            /\ res'.op = "reject" =>
                 \A id \in Ids, body \in RejectBodies : asItShould \/ ~Reject(user, id, body)
            /\ res'.op = "createSchedule" =>
                 \A body \in ScheduleBodies : asItShould \/ ~CreateSchedule(user, body)]_vars

\* A create of a schedule has been refused for the role of the requester,
\* after the admin or the HR user stored a schedule and approved a vacation.
C27_Witness ==
  /\ res = Response("createSchedule", 403, "Acceso denegado")
  /\ Len(schedules) = 1
  /\ Len(vacations) = 1 /\ vacations[1].estado = "aprobada"

\* The record id keeps empleado, fechaInicio and fechaFin in the step.
SameRequest(id) ==
  /\ vacations'[id].empleado = vacations[id].empleado
  /\ vacations'[id].fechaInicio = vacations[id].fechaInicio
  /\ vacations'[id].fechaFin = vacations[id].fechaFin

\* The record id has been decided in the step, by user and at the time of
\* the step.
DecidedBy(id, user) ==
  /\ Has(vacations'[id], "aprobadoPor") /\ vacations'[id].aprobadoPor = user
  /\ Has(vacations'[id], "fechaAprobacion") /\ vacations'[id].fechaAprobacion = now

\* C29: an approve answered 200 finds the record pending and leaves it
\* aprobada with aprobadoPor the requester and fechaAprobacion the current
\* time; a reject answered 200 finds it pending and leaves it rechazada
\* with aprobadoPor the requester, fechaAprobacion the current time and
\* motivoRechazo that of the request; neither changes empleado,
\* fechaInicio or fechaFin of the record.
C29_DecisionEffects ==
  [][res'.code = 200 /\ res'.op \in {"approve", "reject"} =>
       \A user \in Requesters, id \in Stored :
         /\ res'.op = "approve" =>
              \/ /\ vacations[id].estado = "pendiente"
                 /\ vacations'[id].estado = "aprobada"
                 /\ DecidedBy(id, user)
                 /\ SameRequest(id)
              \/ ~Approve(user, id)
         /\ res'.op = "reject" =>
              \A body \in RejectBodies :
                \/ /\ vacations[id].estado = "pendiente"
                   /\ vacations'[id].estado = "rechazada"
                   /\ DecidedBy(id, user)
                   /\ Has(body, "motivoRechazo")
                   /\ Has(vacations'[id], "motivoRechazo")
                   /\ vacations'[id].motivoRechazo = body.motivoRechazo
                   /\ SameRequest(id)
                \/ ~Reject(user, id, body)]_vars

\* One record has been approved by the admin and another rejected by the
\* HR user after the clock advanced.
C29_Witness ==
  /\ res = Response("reject", 200, "")
  /\ \E i, j \in Stored :
       /\ vacations[i].estado = "aprobada" /\ vacations[i].aprobadoPor = Admin
       /\ vacations[j].estado = "rechazada" /\ vacations[j].aprobadoPor = 2
       /\ vacations[j].fechaAprobacion = MaxNow

\* C30: the record stored by a create request that supplies diasHabiles
\* (0 included) or diasSolicitados holds the supplied value; the day counts
\* are derived only when the request has none.
C30_SuppliedDaysStored ==
  [][res'.op = "create" /\ res'.code = 201 =>
       \A user \in Users, body \in SuppliedBodies :
         \/ LET v == vacations'[Len(vacations')]
            IN /\ Has(body, "diasHabiles") => v.diasHabiles = body.diasHabiles
               /\ Has(body, "diasSolicitados") => v.diasSolicitados = body.diasSolicitados
         \/ ~Create(user, body)]_vars

\* The status an approve, reject or cancel gives the record.
DecideTarget(op) ==
  IF op = "approve" THEN "aprobada" ELSE IF op = "reject" THEN "rechazada" ELSE "cancelada"

\* The requests answered 200 that found the record pending.
DecideWinners ==
  {p \in Procs : /\ procs[p].pc = "done" /\ procs[p].code = 200
                 /\ procs[p].body.read.estado = "pendiente"}

\* C31: of the approve, reject and cancel requests that found the same
\* record pending at most one is answered 200, once all are answered (and
\* no later request has changed the record) the stored estado is the target
\* of that one, and a record whose reject or cancel was answered 200 is not
\* aprobada.
C31_SingleWriter ==
  /\ Cardinality(DecideWinners) <= 1
  /\ \A p \in DecideWinners :
       /\ (\A q \in Procs : \/ procs[q].pc = "idle"
                             \/ (procs[q].pc = "done" /\ procs[q].code # 200)
                             \/ q \in DecideWinners) =>
            vacations[1].estado = DecideTarget(procs[p].body.op)
       /\ procs[p].body.op \in {"reject", "cancel"} => vacations[1].estado # "aprobada"

\* The records of employee e, in the order stored.
OfEmployee(store, e) == SelectSeq(store, LAMBDA v : v.empleado = e)

\* The code of the reply to a create request served on the collection store.
CreateCodeOn(store, user, body) ==
  LET e == CreateEmpleadoId(user, body)
  IN IF e \notin Users THEN 404
     ELSE IF Has(body, "reemplazo") /\ body.reemplazo \notin Users THEN 404
     ELSE IF body.fechaFin <= body.fechaInicio THEN 400
     ELSE IF Conflicts(store, e, body.fechaInicio, body.fechaFin, 0) # {} THEN 409
     ELSE IF ~SaveOk(store, NewVacation(user, body), TRUE, 0) THEN 500
     ELSE 201

\* Every stored record but id is as it was.
OthersUnchanged(id) ==
  \A j \in Stored \ {id} : vacations'[j] = vacations[j]

\* C32: the reply to a create request for an employee is the reply the
\* request gets when the collection holds the records of that employee
\* only, and an update, approve, reject or cancel of a record changes no
\* other record, so none of another employee.
C32_EmployeesIndependent ==
  [][/\ res'.op = "create" =>
          \A user \in Users, body \in EmployeesBodies :
            \/ res'.code = CreateCodeOn(OfEmployee(vacations, CreateEmpleadoId(user, body)),
                                        user, body)
            \/ ~Create(user, body)
     /\ res'.op \in {"update", "approve", "reject", "cancel"} =>
          /\ Len(vacations') = Len(vacations)
          /\ \A user \in Users, id \in Ids :
               \/ OthersUnchanged(id)
               \/ /\ ~Approve(user, id) /\ ~Cancel(user, id)
                  /\ ~Reject(user, id, [motivoRechazo |-> MaxMotivoRechazo])
                  /\ \A body \in EmployeesPatches : ~Update(user, id, body)]_vars

\* A request of the employee has been stored over the same days as an
\* active record of the HR user, and the other way round.
C32_Witness ==
  /\ res = Response("create", 201, "")
  /\ Len(vacations) = 2
  /\ vacations[1].empleado # vacations[2].empleado
  /\ vacations[1].estado \in activeStates /\ vacations[2].estado \in activeStates
  /\ vacations[1].fechaInicio = vacations[2].fechaInicio

\* The stored records of employee e that share a day with [inicio, fin]
\* and are not rechazada, cancelada or completada.
Blocking(e, inicio, fin) ==
  {i \in Stored : /\ vacations[i].empleado = e
                  /\ SharesADay(vacations[i].fechaInicio, vacations[i].fechaFin, inicio, fin)
                  /\ vacations[i].estado \notin {"rechazada", "cancelada", "completada"}}

\* C33: a create request with an existing employee, fechaFin after
\* fechaInicio and fechaInicio not in the past, whose dates share a day
\* only with rechazada, cancelada or completada records of the employee,
\* is answered 201 and its record is stored.
C33_TerminalDoNotBlock ==
  [][res'.op = "create" =>
       \A user \in Users, body \in EmployeesBodies :
         \/ ~(/\ CreateEmpleadoId(user, body) \in Users
              /\ body.fechaFin > body.fechaInicio
              /\ body.fechaInicio >= now
              /\ Blocking(CreateEmpleadoId(user, body), body.fechaInicio, body.fechaFin) = {})
         \/ /\ res'.code = 201
            /\ Len(vacations') = Len(vacations) + 1
            /\ vacations'[Len(vacations')].fechaInicio = body.fechaInicio
         \/ ~Create(user, body)]_vars

\* A request has been stored over the days of a cancelled or rejected
\* record of the same employee.
C33_Witness ==
  /\ res = Response("create", 201, "")
  /\ Len(vacations) = 2
  /\ vacations[1].empleado = vacations[2].empleado
  /\ vacations[1].estado \in {"rechazada", "cancelada"}
  /\ vacations[2].estado = "pendiente"
  /\ vacations[1].fechaInicio = vacations[2].fechaInicio

\* No other active record of the employee of record id shares a day with it.
AloneInItsDays(id) ==
  \A j \in Stored \ {id} :
    ~(/\ vacations[j].empleado = vacations[id].empleado
      /\ InActiveStatus(vacations[j])
      /\ SharesADay(vacations[j].fechaInicio, vacations[j].fechaFin,
                    vacations[id].fechaInicio, vacations[id].fechaFin))

\* C34: a create request whose fechaInicio is before the current time
\* stores nothing and is answered 500 by the failed save (409 by the route
\* when an active record of the employee shares a day with it), so the
\* fechaInicio of a record just stored is not before the current time; an approve or reject by an
\* admin or HR requester, or a cancel by the owner or such a requester, of
\* a pending record whose fechaInicio has passed is answered 200 and gives
\* the record its new estado (the approve when no other active record of
\* the employee shares a day with it).
C34_PastStartDate ==
  [][/\ res'.op = "create" =>
          /\ res'.code = 201 => vacations'[Len(vacations')].fechaInicio >= now
          /\ \A user \in Users, body \in RolesBodies :
               \/ body.fechaInicio >= now
               \/ /\ vacations' = vacations
                  /\ res'.code =
                       IF Blocking(CreateEmpleadoId(user, body),
                                   body.fechaInicio, body.fechaFin) # {}
                       THEN 409 ELSE 500
               \/ ~Create(user, body)
     /\ res'.op \in {"approve", "reject", "cancel"} =>
          \A user \in Users, id \in Stored :
            (vacations[id].fechaInicio < now /\ vacations[id].estado = "pendiente") =>
              /\ (res'.op = "approve" /\ Elevated(user) /\ AloneInItsDays(id)) =>
                   \/ res'.code = 200 /\ vacations'[id].estado = "aprobada"
                   \/ ~Approve(user, id)
              /\ (res'.op = "reject" /\ Elevated(user)) =>
                   \/ res'.code = 200 /\ vacations'[id].estado = "rechazada"
                   \/ ~Reject(user, id, [motivoRechazo |-> MaxMotivoRechazo])
              /\ (res'.op = "cancel" /\ (Elevated(user) \/ vacations[id].empleado = user)) =>
                   \/ res'.code = 200 /\ vacations'[id].estado = "cancelada"
                   \/ ~Cancel(user, id)]_vars

\* A record whose fechaInicio has passed has been approved, and a second
\* one, stored before the clock advanced, is still pending.
C34_Witness ==
  /\ res = Response("approve", 200, "")
  /\ Len(vacations) = 2
  /\ vacations[1].fechaInicio < now
  /\ vacations[1].estado = "aprobada" /\ vacations[1].fechaAprobacion = now
  /\ vacations[2].estado = "pendiente"

\* C35: vigente read on the day `now` is true exactly when the record is
\* aprobada and fechaInicio <= now <= fechaFin (so it is false of every
\* pendiente, rechazada or cancelada record), and neither the read nor the
\* passing of time changes the stored record.
C35_Vigente ==
  [][/\ vacations' = vacations
     /\ res'.op = "vigente" =>
          (res'.vigente <=> /\ vacations[1].estado = "aprobada"
                            /\ vacations[1].fechaInicio <= now
                            /\ now <= vacations[1].fechaFin)]_vars

\* The requester may register the entry and the exit of schedule id.
MayRegister(user, id) == Elevated(user) \/ schedules[id].empleado = user

\* C36: a check-in of a schedule is answered 200 only when it has no
\* horaEntradaReal, and then records one and leaves it en_curso; a
\* check-out is answered 200 only when it has a horaEntradaReal and no
\* horaSalidaReal, and then records one and leaves it completado; a
\* check-in of a schedule with a horaEntradaReal and a check-out of one
\* without horaEntradaReal or with a horaSalidaReal are answered 400 and
\* change nothing; and every stored schedule with a horaSalidaReal has a
\* horaEntradaReal.
C36_CheckInCheckOut ==
  [][/\ \A id \in 1..Len(schedules') :
          Has(schedules'[id], "horaSalidaReal") => Has(schedules'[id], "horaEntradaReal")
     /\ res'.op = "checkin" =>
          \A user \in Users, id \in 1..Len(schedules), horaActual \in HorasActuales :
            \/ ~MayRegister(user, id)
            \/ IF Has(schedules[id], "horaEntradaReal")
                 THEN res'.code = 400 /\ schedules' = schedules
                 ELSE /\ res'.code = 200
                      /\ Has(schedules'[id], "horaEntradaReal")
                      /\ schedules'[id].horaEntradaReal = horaActual
                      /\ schedules'[id].estado = "en_curso"
            \/ ~CheckIn(user, id, horaActual)
     /\ res'.op = "checkout" =>
          \A user \in Users, id \in 1..Len(schedules), horaActual \in HorasActuales :
            \/ ~MayRegister(user, id)
            \/ IF ~Has(schedules[id], "horaEntradaReal") \/ Has(schedules[id], "horaSalidaReal")
                 THEN res'.code = 400 /\ schedules' = schedules
                 ELSE /\ res'.code = 200
                      /\ Has(schedules'[id], "horaSalidaReal")
                      /\ schedules'[id].horaSalidaReal = horaActual
                      /\ schedules'[id].estado = "completado"
            \/ ~CheckOut(user, id, horaActual)]_vars

\* A second check-out of a completed schedule, whose entry was registered
\* at "00:00", has been refused.
C36_Witness ==
  /\ res = Response("checkout", 400, "Salida ya registrada")
  /\ \E id \in 1..Len(schedules) :
       /\ schedules[id].estado = "completado"
       /\ schedules[id].horaEntradaReal = 0
       /\ Has(schedules[id], "horaSalidaReal")

\* C37: after every create and update of a schedule no two stored
\* schedules have the same empleado and the same fecha, and a create for an
\* empleado and fecha that a stored schedule has is answered 409 and stores
\* nothing.
C37_OneSchedulePerDay ==
  [][/\ \A i, j \in 1..Len(schedules') :
          (/\ schedules'[i].empleado = schedules'[j].empleado
           /\ schedules'[i].fecha = schedules'[j].fecha) => i = j
     /\ res'.op = "createSchedule" =>
          \A user \in Users, body \in HoursBodies :
            \/ ~Elevated(user)
            \/ ~(\E i \in 1..Len(schedules) : /\ schedules[i].empleado = body.empleado
                                                /\ schedules[i].fecha = body.fecha)
            \/ res'.code = 409 /\ schedules' = schedules
            \/ ~CreateSchedule(user, body)]_vars

\* C38: a schedule stored by a create has horaSalida other than its
\* horaEntrada, and its horasPlanificadas are more than 0.
C38_PlannedHoursPositive ==
  [][(res'.op = "createSchedule" /\ res'.code = 201) =>
       LET v == schedules'[Len(schedules')]
       IN v.horaSalida # v.horaEntrada /\ horasPlanificadas(v) > 0]_vars

\* C39: a create of a contract without numeroContrato, by an admin or HR
\* requester for an existing employee, is answered 201 and stores a
\* contract whose numeroContrato no other stored contract has.
C39_ContractNumbersDiffer ==
  [][res'.op = "createContract" =>
       \A user \in Users, body \in ContractBodies :
         \/ ~Elevated(user) \/ body.empleado \notin Users \/ Has(body, "numeroContrato")
         \/ /\ res'.code = 201
            /\ Len(contracts') = Len(contracts) + 1
            /\ \A i \in 1..Len(contracts) :
                 ContractExists(i) =>
                   contracts[i].numeroContrato # contracts'[Len(contracts')].numeroContrato
         \/ ~CreateContract(user, body)]_vars

\* The step is a request sent with the token of u, or a login of u.
RequestOf(u) ==
  \/ res'.op = "me" /\ Me(u)
  \/ res'.op = "deleteUser" /\ \E id \in UserIds : DeleteUser(u, id)
  \/ res'.op = "activateUser" /\ \E id \in UserIds : ActivateUser(u, id)
  \/ res'.op = "login" /\ \E body \in LoginBodies : Login(u, body)

\* C40: while a user is not activo, every request sent with a token of
\* that user, issued before or not, and every login of that user is
\* answered 401 (a login without password 400) and changes nothing; once
\* the user is activo again a request with the token is not answered 401.
C40_DeactivatedUser ==
  [][res'.op \in {"me", "deleteUser", "activateUser", "login"} =>
       \A u \in Requesters :
         /\ ~users[u].activo =>
              \/ /\ res'.code = 401 \/ (res'.op = "login" /\ res'.code = 400)
                 /\ UNCHANGED <<vacations, schedules, contracts, users>>
              \/ ~RequestOf(u)
         /\ (users[u].activo /\ res'.op # "login") =>
              \/ res'.code # 401
              \/ ~RequestOf(u)]_vars

\* The HR user, holding a token issued before she was deactivated, has
\* asked to be reactivated and got 401.
C40_Witness ==
  /\ res = Response("activateUser", 401, "Token inválido")
  /\ users[2].token /\ ~users[2].activo
  /\ users[Admin].token /\ users[Admin].activo
====
